---------------------------- MODULE Spec2Model ----------------------------
(***************************************************************************)
(* State-machine model of the crypto price alert CLI (src/src/main.rs).    *)
(*                                                                         *)
(* Text read from standard input is a sequence of one-character strings,   *)
(* so that trim, to_lowercase and parse::<f64> are computed character by   *)
(* character.  An f64 is a record [k, n, d]: k = "fin" is the rational     *)
(* n/d in lowest terms (d > 0), k = "inf" is an infinity of sign n and     *)
(* k = "nan" is NaN.  Finite arithmetic is exact: the prices and           *)
(* thresholds of the model are chosen so that the f64 results of the       *)
(* program are the exact ones.                                             *)
(***************************************************************************)
EXTENDS Integers, Sequences, FiniteSets, TLC

\* ------------------------------------------------------------------------
\* Bounds of the model
\* ------------------------------------------------------------------------

\* the counters of fetches and sleeps stop counting at MaxCount
MaxCount == 2

\* the counter of consecutive failed polls stops counting at MaxFails
MaxFails == 2

\* ------------------------------------------------------------------------
\* Text
\* ------------------------------------------------------------------------

UpperChars == << "A", "B", "C", "D", "E", "F", "G", "H", "I", "J", "K", "L", "M",
                 "N", "O", "P", "Q", "R", "S", "T", "U", "V", "W", "X", "Y", "Z" >>

LowerChars == << "a", "b", "c", "d", "e", "f", "g", "h", "i", "j", "k", "l", "m",
                 "n", "o", "p", "q", "r", "s", "t", "u", "v", "w", "x", "y", "z" >>

DigitChars == << "0", "1", "2", "3", "4", "5", "6", "7", "8", "9" >>

WhiteSpace == { " ", "\t", "\n", "\r" }

Range(s) == { s[i] : i \in DOMAIN s }

IndexOf(c, s) == CHOOSE i \in DOMAIN s : s[i] = c

\* char::to_lowercase on one character
LowerChar(c) ==
  IF c \in Range(UpperChars) THEN LowerChars[IndexOf(c, UpperChars)] ELSE c

\* to_lowercase that leaves the letters as they are
to_lowercaseIdentity(s) == s

\* str::to_lowercase
to_lowercase(s) == [ i \in DOMAIN s |-> LowerChar(s[i]) ]

\* str::trim: drops the white space at both ends
trim(s) ==
  LET keep == { i \in DOMAIN s : s[i] \notin WhiteSpace } IN
  IF keep = {} THEN << >>
  ELSE LET lo == CHOOSE i \in keep : \A j \in keep : i <= j
           hi == CHOOSE i \in keep : \A j \in keep : j <= i
       IN  SubSeq(s, lo, hi)

\* prompt_user: the line read from standard input, trimmed
prompt_user(line) == trim(line)

\* ------------------------------------------------------------------------
\* f64
\* ------------------------------------------------------------------------

Abs(x) == IF x < 0 THEN -x ELSE x

Sign(x) == IF x < 0 THEN -1 ELSE IF x > 0 THEN 1 ELSE 0

RECURSIVE GCD(_, _)
GCD(a, b) == IF b = 0 THEN a ELSE GCD(b, a % b)

NaN == [ k |-> "nan", n |-> 0, d |-> 0 ]

Inf(s) == [ k |-> "inf", n |-> s, d |-> 0 ]

\* the finite value n/d (d # 0), in lowest terms with a positive denominator
Fin(n, d) ==
  LET g == GCD(Abs(n), Abs(d)) IN
  [ k |-> "fin", n |-> (Sign(d) * n) \div g, d |-> Abs(d) \div g ]

\* sign of an f64 other than NaN: -1, 0 or 1
F64Sign(x) == Sign(x.n)

\* f64 subtraction
F64Sub(x, y) ==
  IF x.k = "nan" \/ y.k = "nan" THEN NaN
  ELSE IF x.k = "inf" /\ y.k = "inf" THEN (IF x.n = y.n THEN NaN ELSE x)
  ELSE IF x.k = "inf" THEN x
  ELSE IF y.k = "inf" THEN Inf(-y.n)
  ELSE Fin(x.n * y.d - y.n * x.d, x.d * y.d)

\* f64 multiplication
F64Mul(x, y) ==
  IF x.k = "nan" \/ y.k = "nan" THEN NaN
  ELSE IF x.k = "inf" \/ y.k = "inf"
       THEN (IF F64Sign(x) = 0 \/ F64Sign(y) = 0 THEN NaN
             ELSE Inf(F64Sign(x) * F64Sign(y)))
  ELSE Fin(x.n * y.n, x.d * y.d)

\* f64 division: x/0 is an infinity for x # 0, and 0/0 is NaN
F64Div(x, y) ==
  IF x.k = "nan" \/ y.k = "nan" THEN NaN
  ELSE IF x.k = "inf" THEN (IF y.k = "inf" THEN NaN
                            ELSE Inf(IF F64Sign(y) < 0 THEN -x.n ELSE x.n))
  ELSE IF y.k = "inf" THEN Fin(0, 1)
  ELSE IF y.n = 0 THEN (IF x.n = 0 THEN NaN ELSE Inf(F64Sign(x)))
  ELSE Fin(x.n * y.d, x.d * y.n)

\* f64::abs
F64Abs(x) == IF x.k = "nan" THEN NaN ELSE [ x EXCEPT !.n = Abs(x.n) ]

\* the operator >= of f64: false as soon as one side is NaN
F64Ge(x, y) ==
  IF x.k = "nan" \/ y.k = "nan" THEN FALSE
  ELSE IF x.k = "inf" THEN (x.n = 1 \/ y = x)
  ELSE IF y.k = "inf" THEN y.n = -1
  ELSE x.n * y.d >= y.n * x.d


\* ------------------------------------------------------------------------
\* str::parse::<f64>
\* ------------------------------------------------------------------------

RECURSIVE DigitsValue(_)
DigitsValue(s) ==
  IF s = << >> THEN 0
  ELSE DigitsValue(SubSeq(s, 1, Len(s) - 1)) * 10
         + (IndexOf(s[Len(s)], DigitChars) - 1)

RECURSIVE Pow10(_)
Pow10(e) == IF e = 0 THEN 1 ELSE 10 * Pow10(e - 1)

IsDigits(s) == \A i \in DOMAIN s : s[i] \in Range(DigitChars)

ParseOk(v) == [ ok |-> TRUE, value |-> v ]

ParseErr == [ ok |-> FALSE, value |-> NaN ]

\* The decimal number s (no sign): digits, at most one point, and at least
\* one digit.  Exponent notation is not among the lines the model reads.
ParseDecimal(s, sign) ==
  LET dots == { i \in DOMAIN s : s[i] = "." }
      dot  == IF dots = {} THEN Len(s) + 1 ELSE CHOOSE i \in dots : TRUE
      ip   == SubSeq(s, 1, dot - 1)
      fp   == SubSeq(s, dot + 1, Len(s))
  IN  IF Cardinality(dots) <= 1 /\ IsDigits(ip) /\ IsDigits(fp)
         /\ Len(ip) + Len(fp) > 0
      THEN ParseOk(Fin(sign * (DigitsValue(ip) * Pow10(Len(fp)) + DigitsValue(fp)),
                       Pow10(Len(fp))))
      ELSE ParseErr

\* input.parse::<f64>(): an optional sign, then a decimal number or one of
\* the words inf, infinity, nan in any letter case
ParseF64(s) ==
  IF s = << >> THEN ParseErr
  ELSE LET signed == s[1] \in { "+", "-" }
           sign   == IF s[1] = "-" THEN -1 ELSE 1
           rest   == IF signed THEN Tail(s) ELSE s
           word   == to_lowercase(rest)
       IN  IF rest = << >> THEN ParseErr
           ELSE IF word = << "i", "n", "f" >>
                   \/ word = << "i", "n", "f", "i", "n", "i", "t", "y" >>
                THEN ParseOk(Inf(sign))
           ELSE IF word = << "n", "a", "n" >> THEN ParseOk(NaN)
           ELSE ParseDecimal(rest, sign)

\* ------------------------------------------------------------------------
\* The price API: JSON values and replies
\* ------------------------------------------------------------------------

bitcoin == << "b", "i", "t", "c", "o", "i", "n" >>

ethereum == << "e", "t", "h", "e", "r", "e", "u", "m" >>

cardano == << "c", "a", "r", "d", "a", "n", "o" >>

usd == << "u", "s", "d" >>

eur == << "e", "u", "r" >>

\* the prices the API quotes in the model
Prices == { Fin(0, 1), Fin(94, 1), Fin(100, 1), Fin(105, 1), Fin(106, 1), Fin(201, 2) }

\* serde_json::Value: t is the type, num the number of a "num" and obj the
\* members of an "obj"
JNull == [ t |-> "null", num |-> NaN, obj |-> << >> ]

JStr == [ t |-> "str", num |-> NaN, obj |-> << >> ]

JNum(x) == [ t |-> "num", num |-> x, obj |-> << >> ]

JObj(members) == [ t |-> "obj", num |-> NaN, obj |-> members ]

\* the values found under an asset key
Inner ==
  { JNull, JStr, JObj(<< >>), JObj(usd :> JStr), JObj(usd :> JNull) }
    \cup { JObj(usd :> JNum(p)) : p \in Prices }
    \cup { JObj(eur :> JNum(p)) : p \in { Fin(100, 1) } }

\* the JSON bodies the API answers
Bodies ==
  { JNull, JNum(Fin(100, 1)), JObj(<< >>) }
    \cup { JObj(k :> v) : k \in { bitcoin, ethereum, cardano }, v \in Inner }

\* what reqwest::get(..).await?.json().await? yields: a transport or decode
\* failure, or the decoded body
Replies ==
  { [ got |-> "error", body |-> JNull ] }
    \cup { [ got |-> "body", body |-> b ] : b \in Bodies }

\* no request was made
NoReply == [ got |-> "none", body |-> JNull ]

\* Option<T>: None is {} and Some(v) is {v}
None == { }

Some(v) == { v }


\* Value::get(key): the member of an object, None on anything else
Get(v, key) ==
  IF v.t = "obj" /\ key \in DOMAIN v.obj THEN Some(v.obj[key]) ELSE None

\* Value::as_f64
as_f64(v) == IF v.t = "num" THEN Some(v.num) ELSE None

FetchOk(price) == [ ok |-> TRUE, usd |-> price, err |-> "" ]

FetchErr(e) == [ ok |-> FALSE, usd |-> NaN, err |-> e ]

\* .and_then(|c| c.get(key))
and_then_get(opt, key) == UNION { Get(c, key) : c \in opt }

\* .and_then(|usd| usd.as_f64())
and_then_as_f64(opt) == UNION { as_f64(v) : v \in opt }

\* the lookup chain of fetch_prices on a decoded body
Lookup(response, ticker) ==
  and_then_as_f64(and_then_get(Get(response, ticker), usd))

\* fetch_prices with a price of 0 in place of the parse error
fetch_pricesDefault(ticker, reply) ==
  IF reply.got # "body" THEN FetchErr("Request error")
  ELSE LET price == Lookup(reply.body, ticker) IN
       IF price = None THEN FetchOk(Fin(0, 1))
       ELSE FetchOk(CHOOSE p \in price : TRUE)

\* fetch_prices(ticker), given the reply of the API to its one request
fetch_prices(ticker, reply) ==
  IF reply.got # "body" THEN FetchErr("Request error")
  ELSE LET price == Lookup(reply.body, ticker) IN
       IF price = None THEN FetchErr("Failed to parse price")
       ELSE FetchOk(CHOOSE p \in price : TRUE)

\* ------------------------------------------------------------------------
\* Lines read from standard input
\* ------------------------------------------------------------------------

\* answers to the ticker prompt: BTC, btc, Bitcoin, eth, ETHEREUM, ada,
\* cardano, doge, bit coin and the empty line
TickerLines ==
  { << "B", "T", "C", "\n" >>,
    << "b", "t", "c", "\n" >>,
    << "B", "i", "t", "c", "o", "i", "n", "\r", "\n" >>,
    << " ", "e", "t", "h", " ", "\n" >>,
    << "E", "T", "H", "E", "R", "E", "U", "M", "\n" >>,
    << "a", "d", "a", "\n" >>,
    << "c", "a", "r", "d", "a", "n", "o" >>,
    << "d", "o", "g", "e", "\n" >>,
    << "b", "i", "t", " ", "c", "o", "i", "n", "\n" >>,
    << "\n" >> }

\* answers to the alert type prompt: 1, 2, 3 and the empty line
AlertTypeLines ==
  { << "1", "\n" >>, << " ", "2", "\n" >>, << "3", "\n" >>, << "\n" >> }

\* answers to the threshold prompt: 5, 6, 0, -5, 2.5, inf, NaN, abc, 5 6 and
\* the empty line
ThresholdLines ==
  { << "5", "\n" >>,
    << " ", "6", "\n" >>,
    << "0", "\n" >>,
    << "-", "5", "\n" >>,
    << "2", ".", "5", "\n" >>,
    << "i", "n", "f", "\n" >>,
    << "N", "a", "N", "\n" >>,
    << "a", "b", "c", "\n" >>,
    << "5", " ", "6", "\n" >>,
    << "\n" >> }

\* ------------------------------------------------------------------------
\* Lines written to standard output (and the error main returns)
\* ------------------------------------------------------------------------

Line(kind, msg, name, a, b) ==
  [ kind |-> kind, msg |-> msg, ticker |-> name, a |-> a, b |-> b ]

InvalidTickerLine == Line("InvalidTicker", "", << >>, NaN, NaN)

InvalidInputLine == Line("InvalidInput", "", << >>, NaN, NaN)

MonitoringLine(name, price) == Line("Monitoring", "", name, price, NaN)

CurrentLine(name, price) == Line("Current", "", name, price, NaN)

AlertAbsLine(name, change, price) == Line("AlertAbs", "", name, change, price)

AlertPctLine(name, change, price) == Line("AlertPct", "", name, change, price)

InvalidAlertTypeLine == Line("InvalidAlertType", "", << >>, NaN, NaN)

ErrorFetchingLine(e) == Line("ErrorFetching", e, << >>, NaN, NaN)

AbortLine(e) == Line("Abort", e, << >>, NaN, NaN)

Kinds(lines) == { lines[i].kind : i \in DOMAIN lines }

\* ------------------------------------------------------------------------
\* The program
\* ------------------------------------------------------------------------

VARIABLES
  pc,             \* where main is
  ticker,         \* the asset id get_valid_ticker returned
  alert_type,     \* the answer to the alert type prompt
  threshold,      \* the value prompt_for_f64 returned
  initial_price,  \* the price of the first fetch
  input,          \* the line the last step read from standard input
  reply,          \* the reply of the API to the request of the last step
  out,            \* the lines the last step printed
  printed,        \* the kinds of all lines printed so far
  nfetch,         \* calls of fetch_prices so far (stops at MaxCount)
  nsleep,         \* sleeps so far (stops at MaxCount)
  fails           \* failed polls in a row (stops at MaxFails)

vars == << pc, ticker, alert_type, threshold, initial_price, input, reply, out,
           printed, nfetch, nsleep, fails >>

config == << ticker, alert_type, threshold, initial_price >>

Polling == { "sleep", "fetch" }

Bump(c, max) == IF c < max THEN c + 1 ELSE c

\* the table of get_valid_ticker
valid_tickers ==
  (<< "b", "t", "c" >> :> bitcoin) @@ (bitcoin :> bitcoin)
    @@ (<< "e", "t", "h" >> :> ethereum) @@ (ethereum :> ethereum)
    @@ (<< "a", "d", "a" >> :> cardano) @@ (cardano :> cardano)

\* what get_valid_ticker looks up: the trimmed line in lower case
TickerKey(line) == to_lowercase(prompt_user(line))

\* price_change of the poll loop
price_change(current, initial) == F64Sub(current, initial)

\* percent_change of the poll loop
percent_change(current, initial) ==
  F64Mul(F64Div(price_change(current, initial), initial), Fin(100, 1))

\* the test of arm "1" with > in place of >=
AbsTriggersStrict(current, initial, limit) ==
  /\ F64Ge(F64Abs(price_change(current, initial)), limit)
  /\ F64Abs(price_change(current, initial)) # limit

\* the test of arm "1"
AbsTriggers(current, initial, limit) ==
  F64Ge(F64Abs(price_change(current, initial)), limit)

\* the test of arm "2" without abs()
PctTriggersSigned(current, initial, limit) ==
  F64Ge(percent_change(current, initial), limit)

\* the test of arm "2" that never alerts on a baseline of zero
PctTriggersGuarded(current, initial, limit) ==
  /\ F64Sign(initial) # 0
  /\ F64Ge(F64Abs(percent_change(current, initial)), limit)

\* the test of arm "2"
PctTriggers(current, initial, limit) ==
  F64Ge(F64Abs(percent_change(current, initial)), limit)

\* the match with a last arm that falls back to the test of arm "1"
EvaluateDefaultAbs(name, type, limit, initial, current) ==
  IF type = << "2" >>
  THEN (IF PctTriggers(current, initial, limit)
        THEN << AlertPctLine(name, percent_change(current, initial), current) >>
        ELSE << >>)
  ELSE (IF AbsTriggers(current, initial, limit)
        THEN << AlertAbsLine(name, price_change(current, initial), current) >>
        ELSE << >>)

\* match alert_type.as_str(): the lines the three arms print
Evaluate(name, type, limit, initial, current) ==
  IF type = << "1" >>
  THEN (IF AbsTriggers(current, initial, limit)
        THEN << AlertAbsLine(name, price_change(current, initial), current) >>
        ELSE << >>)
  ELSE IF type = << "2" >>
  THEN (IF PctTriggers(current, initial, limit)
        THEN << AlertPctLine(name, percent_change(current, initial), current) >>
        ELSE << >>)
  ELSE << InvalidAlertTypeLine >>

\* the lines of one iteration of the poll loop, given the result of its fetch
PollLines(name, type, limit, initial, res) ==
  IF res.ok
  THEN << CurrentLine(name, res.usd) >> \o Evaluate(name, type, limit, initial, res.usd)
  ELSE << ErrorFetchingLine(res.err) >>

\* a poll loop that returns the error of a failed fetch
AfterPollAbort(res) == IF res.ok THEN "sleep" ELSE "aborted"

\* a poll loop that fetches again at once after a failed fetch
AfterPollRetry(res) == IF res.ok THEN "sleep" ELSE "fetch"

\* where main is after an iteration of the poll loop
AfterPoll(res) == "sleep"

\* a first fetch whose failure does not stop main
AfterInitialFetchIgnore(res) == "sleep"

\* where main is after the first fetch
AfterInitialFetch(res) == IF res.ok THEN "sleep" ELSE "aborted"

println(lines) ==
  /\ out' = lines
  /\ printed' = printed \cup Kinds(lines)

Init ==
  /\ pc = "get_valid_ticker"
  /\ ticker = << >>
  /\ alert_type = << >>
  /\ threshold = NaN
  /\ initial_price = NaN
  /\ input = << >>
  /\ reply = NoReply
  /\ out = << >>
  /\ printed = { }
  /\ nfetch = 0
  /\ nsleep = 0
  /\ fails = 0

\* one round of the loop of get_valid_ticker
get_valid_ticker(line) ==
  /\ pc = "get_valid_ticker"
  /\ input' = line
  /\ LET key == TickerKey(line) IN
     IF key \in DOMAIN valid_tickers
     THEN /\ ticker' = valid_tickers[key]
          /\ pc' = "alert_type"
          /\ println(<< >>)
     ELSE /\ println(<< InvalidTickerLine >>)
          /\ UNCHANGED << pc, ticker >>
  /\ reply' = NoReply
  /\ UNCHANGED << alert_type, threshold, initial_price, nfetch, nsleep, fails >>

\* let alert_type = prompt_user(..)
PromptAlertType(line) ==
  /\ pc = "alert_type"
  /\ input' = line
  /\ alert_type' = prompt_user(line)
  /\ pc' = "threshold"
  /\ println(<< >>)
  /\ reply' = NoReply
  /\ UNCHANGED << ticker, threshold, initial_price, nfetch, nsleep, fails >>

\* one round of the loop of prompt_for_f64
prompt_for_f64(line) ==
  /\ pc = "threshold"
  /\ input' = line
  /\ LET parsed == ParseF64(prompt_user(line)) IN
     IF parsed.ok
     THEN /\ threshold' = parsed.value
          /\ pc' = "initial_fetch"
          /\ println(<< >>)
     ELSE /\ println(<< InvalidInputLine >>)
          /\ UNCHANGED << pc, threshold >>
  /\ reply' = NoReply
  /\ UNCHANGED << ticker, alert_type, initial_price, nfetch, nsleep, fails >>

\* let initial_price = fetch_prices(&ticker).await?.usd, and the line after it
InitialFetch(r) ==
  /\ pc = "initial_fetch"
  /\ reply' = r
  /\ nfetch' = Bump(nfetch, MaxCount)
  /\ LET res == fetch_prices(ticker, r) IN
     /\ pc' = AfterInitialFetch(res)
     /\ IF res.ok
        THEN /\ initial_price' = res.usd
             /\ println(<< MonitoringLine(ticker, res.usd) >>)
        ELSE /\ println(<< AbortLine(res.err) >>)
             /\ UNCHANGED initial_price
  /\ input' = << >>
  /\ UNCHANGED << ticker, alert_type, threshold, nsleep, fails >>

\* sleep(Duration::from_secs(30)).await
Sleep ==
  /\ pc = "sleep"
  /\ pc' = "fetch"
  /\ nsleep' = Bump(nsleep, MaxCount)
  /\ println(<< >>)
  /\ reply' = NoReply
  /\ input' = << >>
  /\ UNCHANGED << config, nfetch, fails >>

\* the rest of an iteration of the poll loop: the fetch and the match on it
Poll(r) ==
  /\ pc = "fetch"
  /\ reply' = r
  /\ nfetch' = Bump(nfetch, MaxCount)
  /\ LET res == fetch_prices(ticker, r) IN
     /\ pc' = AfterPoll(res)
     /\ println(PollLines(ticker, alert_type, threshold, initial_price, res))
     /\ fails' = IF res.ok THEN 0 ELSE Bump(fails, MaxFails)
  /\ input' = << >>
  /\ UNCHANGED << config, nsleep >>

Next ==
  \/ \E line \in TickerLines : get_valid_ticker(line)
  \/ \E line \in AlertTypeLines : PromptAlertType(line)
  \/ \E line \in ThresholdLines : prompt_for_f64(line)
  \/ \E r \in Replies : InitialFetch(r)
  \/ Sleep
  \/ \E r \in Replies : Poll(r)

Spec == Init /\ [][Next]_vars

TypeOK ==
  /\ pc \in { "get_valid_ticker", "alert_type", "threshold", "initial_fetch",
              "sleep", "fetch", "aborted" }
  /\ nfetch \in 0 .. MaxCount
  /\ nsleep \in 0 .. MaxCount
  /\ fails \in 0 .. MaxFails
  /\ reply \in Replies \cup { NoReply }

\* ------------------------------------------------------------------------
\* Properties
\* ------------------------------------------------------------------------

CanonicalIds == { bitcoin, ethereum, cardano }

AlertKinds == { "AlertAbs", "AlertPct" }

\* the last step was an iteration of the poll loop whose fetch succeeded
PolledOk == pc = "sleep" /\ nsleep > 0 /\ "Current" \in Kinds(out)

\* the price the last successful poll fetched
Current == out[1].a

\* x is a number greater than zero (+inf included)
Positive(x) == x.k # "nan" /\ x.n > 0

\* the body r carries a number at r[name]["usd"]
Quoted(r, name) ==
  /\ r.got = "body"
  /\ r.body.t = "obj"
  /\ name \in DOMAIN r.body.obj
  /\ r.body.obj[name].t = "obj"
  /\ usd \in DOMAIN r.body.obj[name].obj
  /\ r.body.obj[name].obj[usd].t = "num"

\* |c - b| as a fraction: numerator and denominator
DeltaNum(c, b) == Abs(c.n * b.d - b.n * c.d)

DeltaDen(c, b) == c.d * b.d

\* q >= t for the fraction q = num/den (den > 0) and a threshold t
AtLeast(num, den, t) ==
  CASE t.k = "nan" -> FALSE
    [] t.k = "inf" -> t.n < 0
    [] OTHER       -> num * t.d >= t.n * den

\* C1: in mode "1" with a baseline above zero, a successful poll prints the
\* alert of the absolute change exactly when |current - baseline| >= threshold
\* (a change equal to the threshold included), and never the percent alert.
C1_AbsoluteDelta ==
  (PolledOk /\ alert_type = << "1" >> /\ Positive(initial_price)) =>
    /\ "AlertPct" \notin Kinds(out)
    /\ "AlertAbs" \in Kinds(out)
         <=> AtLeast(DeltaNum(Current, initial_price),
                     DeltaDen(Current, initial_price), threshold)

\* a poll in mode "1" whose change equals the threshold alerts
C1_Witness ==
  /\ PolledOk /\ alert_type = << "1" >> /\ Positive(initial_price)
  /\ threshold = Fin(5, 1) /\ initial_price = Fin(100, 1) /\ Current = Fin(105, 1)
  /\ "AlertAbs" \in Kinds(out)

\* C2: in mode "2" with a baseline above zero, a successful poll prints the
\* percent alert exactly when |(current - baseline) / baseline * 100| >=
\* threshold, and never the alert of the absolute change.
C2_PercentDelta ==
  (PolledOk /\ alert_type = << "2" >> /\ Positive(initial_price)) =>
    /\ "AlertAbs" \notin Kinds(out)
    /\ "AlertPct" \in Kinds(out)
         <=> AtLeast(DeltaNum(Current, initial_price) * 100 * initial_price.d,
                     DeltaDen(Current, initial_price) * initial_price.n, threshold)

\* baseline 100, threshold 5, current 94: the alert reports -6 percent
C2_Witness ==
  /\ PolledOk /\ alert_type = << "2" >>
  /\ threshold = Fin(5, 1) /\ initial_price = Fin(100, 1) /\ Current = Fin(94, 1)
  /\ Len(out) = 2 /\ out[2].kind = "AlertPct" /\ out[2].a = Fin(-6, 1)

\* C3: a failed fetch in the poll loop prints the error line and nothing else,
\* leaves ticker, mode, threshold and baseline as they are and goes back to
\* the sleep; after any number of failures in a row the loop can go on.
C3_PollFailureNotFatal ==
  /\ [][(pc = "fetch" /\ ~Quoted(reply', ticker)) =>
          /\ Len(out') = 1 /\ out'[1].kind = "ErrorFetching"
          /\ config' = config
          /\ pc' = "sleep"
          /\ fails' > 0]_vars
  /\ [](fails > 0 => pc \in Polling /\ ENABLED Next)

\* MaxFails polls in a row have failed and main is at the sleep
C3_Witness ==
  /\ fails = MaxFails /\ pc = "sleep"
  /\ Kinds(out) = { "ErrorFetching" }
  /\ printed \cap AlertKinds = { }

\* C4: when the first fetch fails main stops there: the monitoring line and
\* the alerts are never printed, no sleep and no second fetch happen.
C4_InitialFailureAborts ==
  /\ [][(pc = "initial_fetch" /\ ~Quoted(reply', ticker)) => pc' = "aborted"]_vars
  /\ [](pc = "aborted" =>
          /\ ~ENABLED Next
          /\ printed \cap ({ "Monitoring", "Current" } \cup AlertKinds) = { }
          /\ nsleep = 0 /\ nfetch = 1)

\* main has stopped on the parse error of the first fetch
C4_Witness ==
  /\ pc = "aborted" /\ reply.got = "body"
  /\ out = << AbortLine("Failed to parse price") >>

\* the asset id each line of TickerLines stands for, << >> for none
ExpectedTicker(line) ==
  CASE line \in { << "B", "T", "C", "\n" >>, << "b", "t", "c", "\n" >>,
                  << "B", "i", "t", "c", "o", "i", "n", "\r", "\n" >> } -> bitcoin
    [] line \in { << " ", "e", "t", "h", " ", "\n" >>,
                  << "E", "T", "H", "E", "R", "E", "U", "M", "\n" >> } -> ethereum
    [] line \in { << "a", "d", "a", "\n" >>,
                  << "c", "a", "r", "d", "a", "n", "o" >> } -> cardano
    [] OTHER -> << >>

\* C5: every fetch uses one of the ids bitcoin, ethereum, cardano: the ticker
\* prompt maps its answer, letter case ignored, to the id (BTC to bitcoin) and
\* answers any other line (doge) with the rejection and the same prompt, with
\* no fetch made.
C5_CanonicalTicker ==
  /\ [](pc # "get_valid_ticker" => ticker \in CanonicalIds)
  /\ [](reply.got # "none" => ticker \in CanonicalIds)
  /\ [][pc = "get_valid_ticker" =>
          IF ExpectedTicker(input') # << >>
          THEN ticker' = ExpectedTicker(input') /\ pc' = "alert_type" /\ out' = << >>
          ELSE /\ pc' = "get_valid_ticker" /\ out' = << InvalidTickerLine >>
               /\ nfetch' = 0 /\ reply' = NoReply]_vars

\* the answer BTC has become the id bitcoin
C5_Witness ==
  /\ pc = "alert_type" /\ input = << "B", "T", "C", "\n" >> /\ ticker = bitcoin
  /\ "InvalidTicker" \in printed

\* the answer to the alert type prompt has been read
ModeRead == pc \notin { "get_valid_ticker", "alert_type" }

\* C6: an alert type other than "1" and "2" is accepted at the prompt and
\* main goes on to poll, but no alert is ever printed and every successful
\* poll prints the invalid alert type notice.
C6_InvalidModeNeverAlerts ==
  /\ [][(pc = "alert_type" /\ input' # << >>) => pc' = "threshold" /\ out' = << >>]_vars
  /\ []((ModeRead /\ alert_type \notin { << "1" >>, << "2" >> }) =>
          /\ printed \cap AlertKinds = { }
          /\ PolledOk => (Len(out) = 2 /\ out[2] = InvalidAlertTypeLine))

\* a second poll in a row has printed the notice in mode "3"
C6_Witness ==
  /\ PolledOk /\ alert_type = << "3" >> /\ nsleep >= 2
  /\ out[2] = InvalidAlertTypeLine
  /\ Positive(threshold) /\ Current = Fin(106, 1) /\ initial_price = Fin(100, 1)

\* C7: once main monitors (first fetch done or polling) the threshold is a
\* number greater than zero.
C7_ThresholdPositive ==
  pc \in Polling => Positive(threshold)

\* C8: the poll loop alternates one sleep and one fetch, with no second
\* fetch in an iteration also after a failure, and no step leads out of it.
C8_SequentialLoop ==
  /\ [][/\ pc = "sleep" => (pc' = "fetch" /\ reply' = NoReply /\ nfetch' = nfetch
                              /\ nsleep' = Bump(nsleep, MaxCount) /\ out' = << >>)
        /\ pc = "fetch" => (pc' = "sleep" /\ reply' # NoReply
                              /\ nfetch' = Bump(nfetch, MaxCount) /\ nsleep' = nsleep)
        /\ pc \in Polling => pc' \in Polling]_vars
  /\ [](pc \in Polling =>
          /\ ENABLED Next
          /\ nfetch < MaxCount => nfetch = nsleep + (IF pc = "sleep" THEN 1 ELSE 0))

\* main is at the fetch again after MaxCount sleeps and a failed poll
C8_Witness ==
  pc = "fetch" /\ nsleep = MaxCount /\ fails > 0

\* C9: on a received body fetch_prices yields the number at
\* body[ticker]["usd"] when it is there, and the parse error otherwise.
C9_FetchParsing ==
  reply.got = "body" =>
    IF Quoted(reply, ticker)
    THEN /\ out[1].kind \in { "Monitoring", "Current" }
         /\ out[1].a = reply.body.obj[ticker].obj[usd].num
         /\ out[1].kind = "Monitoring" => initial_price = out[1].a
    ELSE /\ Len(out) = 1
         /\ out[1].kind \in { "Abort", "ErrorFetching" }
         /\ out[1].msg = "Failed to parse price"

\* the body {"bitcoin": {"usd": 100.5}} has given the price 100.5
C9_Witness ==
  /\ ticker = bitcoin
  /\ reply = [ got |-> "body", body |-> JObj(bitcoin :> JObj(usd :> JNum(Fin(201, 2)))) ]
  /\ out[1].kind = "Current" /\ out[1].a = Fin(201, 2)

\* a successful poll in mode "2" on a baseline of zero, threshold above zero
ZeroBaselinePoll ==
  /\ PolledOk /\ alert_type = << "2" >>
  /\ initial_price = Fin(0, 1) /\ Positive(threshold)

\* C10 as stated: on a baseline of zero every successful poll in mode "2" with
\* a threshold above zero prints an alert, a current price of zero included.
C10_Original ==
  ZeroBaselinePoll => "AlertPct" \in Kinds(out)

\* C10: on a baseline of zero a successful poll in mode "2" with a threshold
\* above zero prints an alert (of an infinite change) exactly when the current
\* price is not zero; on a current price of zero the change is NaN and no
\* alert is printed.
C10_ZeroBaseline ==
  ZeroBaselinePoll =>
    IF Current = Fin(0, 1)
    THEN out = << CurrentLine(ticker, Current) >>
    ELSE out = << CurrentLine(ticker, Current),
                  AlertPctLine(ticker, Inf(1), Current) >>

\* baseline 0, threshold +inf, current 94: the alert of an infinite change
C10_Witness ==
  /\ ZeroBaselinePoll /\ threshold = Inf(1)
  /\ Current = Fin(94, 1) /\ "AlertPct" \in Kinds(out)

=============================================================================
